---- MODULE Spec2Model ----
(***************************************************************************)
(* A model of progen/progen.py (lucidrains/progen-jax): LocalAttention,     *)
(* FeedForward, SGU and ProGenBase.                                         *)
(*                                                                          *)
(* Three specifications share the module:                                   *)
(*   Spec      ProGenBase.__init__ followed by one ProGenBase.__call__,     *)
(*             block by block.  An activation is its shape (rows, cols)     *)
(*             together with, for every row, the set of input positions the *)
(*             row is computed from (dep).                                  *)
(*   SpecAttn  the windowing, padding, similarity and masking statements of *)
(*             LocalAttention.__call__ on concrete integer tensors.         *)
(*   SpecSGU   the statements of SGU.__call__ on concrete integer tensors,  *)
(*             run on two inputs side by side.                              *)
(* Positions, windows and heads are numbered from 1 here and from 0 in the  *)
(* source; index differences (j - i) are the same in both.                  *)
(***************************************************************************)
EXTENDS Integers, Sequences, FiniteSets, TLC

\* ------------------------------------------------------------------ bounds
MaxSeqLen == 4
MaxDepth == 3
MaxGlobalMlpDepth == 3
MaxWindowSize == 3
MaxWindows == 2
MaxHeads == 2
MaxGateLen == 3
NumTokens == 5

\* kwargs of ProGenBase that only shapes depend on
DimSet == {6, 8}
HeadsSet == {2, 4}
DimHeadSet == {2, 3}

\* ------------------------------------------------------------- constants
\* A score is a decimal float <<m, e>>, the number m * 10^e.
\* ATTN_MASK_VALUE = -1e10
ATTN_MASK_VALUE == <<-1, 10>>

\* the float of an integer
Float(i) == <<i, 0>>

FF_MULT == 4

\* --------------------------------------------------------------- helpers
Min(a, b) == IF a <= b THEN a ELSE b

\* numpy broadcasting of one axis: equal sizes, or one of them is 1
BroadcastOK(a, b) == a = b \/ a = 1 \/ b = 1

BroadcastDim(a, b) == IF a = 1 THEN b ELSE a

\* element p of an axis of size Len(t) broadcast to a larger size
At(t, p) == IF Len(t) = 1 THEN t[1] ELSE t[p]

\* np.tril(np.ones((rows, cols)), k): 1 where j - i <= k, else 0
Tril(rows, cols, k) ==
  [i \in 1..rows |-> [j \in 1..cols |-> IF j - i <= k THEN 1 ELSE 0]]

\* a mutant of AttnMask: the diagonal offset dropped (np.tril(.., 0))
AttnMaskNoOffset(wsz) == Tril(wsz, 2 * wsz, 0)

\* a mutant of AttnMask: strict comparison, the query's own slot dropped
AttnMaskStrict(wsz) == Tril(wsz, 2 * wsz, wsz - 1)

\* a mutant of AttnMask: the band one slot too wide
AttnMaskWide(wsz) == Tril(wsz, 2 * wsz, wsz + 1)

\* mask = np.tril(np.ones((wsz, wsz * 2)), wsz)
AttnMask(wsz) == Tril(wsz, 2 * wsz, wsz)

\* a mutant of SGUMask: the diagonal above the main one is kept too
SGUMaskWide(n) == Tril(n, n, 1)

\* mask = np.tril(np.ones((n, n)))
SGUMask(n) == Tril(n, n, 0)

\* rearrange(t, '(w n) -> w n', w = window) on the sequence axis
Windows(t, window) ==
  LET nw == Len(t) \div window
  IN  [w \in 1..window |-> [i \in 1..nw |-> t[(w - 1) * nw + i]]]

\* a mutant of PadFront: the padding window filled with ones
PadFrontOnes(ws, zero) ==
  IF Len(ws) = 0 THEN ws
  ELSE <<[i \in 1..Len(ws[1]) |-> 1]>> \o ws

\* np.pad(t, ((0, 0), (1, 0), (0, 0), (0, 0)), constant_values = 0.)
\* on the window axis: one window of `zero` in front
PadFront(ws, zero) ==
  IF Len(ws) = 0 THEN ws
  ELSE <<[i \in 1..Len(ws[1]) |-> zero]>> \o ws

\* a mutant of ConcatPairs: the halves swapped (own window first)
ConcatPairsSwapped(p) == [w \in 1..(Len(p) - 1) |-> p[w + 1] \o p[w]]

\* np.concatenate((t[:, :-1], t[:, 1:]), axis = 2) on the window axis
ConcatPairs(p) == [w \in 1..(Len(p) - 1) |-> p[w] \o p[w + 1]]


\* ------------------------------------------------------------------ state
VARIABLES
  kwargs,     \* ProGenBase(**kwargs)
  layers,     \* ProGenBase.layers: <<[attn, ff], ...>>
  pc,         \* position of the program: new, constructed, attn, ff, to_logits, returned, raised
  seq,        \* x.shape[0] of the forward call's token sequence (0 before the call)
  li,         \* the layer the forward pass is in
  x,          \* the activation: [rows, cols, dep]
  pos_emb,    \* rotary_emb: the shape of each of the sin and cos tables
  failure,    \* "none", "AssertionError" or "ShapeError"
  failedIn,   \* the statement that raised
  qkvCount,   \* how many times to_qkv has been applied in this call
  apc, ah, awsz, q, k, v, kin, vin, sim, mask,      \* SpecAttn
  spc, sseq, params, sinput, sx, gate, weights, biases, sout   \* SpecSGU

progVars == <<kwargs, layers, pc, seq, li, x, pos_emb, failure, failedIn, qkvCount>>

attnVars == <<apc, ah, awsz, q, k, v, kin, vin, sim, mask>>

sguVars == <<spc, sseq, params, sinput, sx, gate, weights, biases, sout>>

vars == <<progVars, attnVars, sguVars>>

\* ----------------------------------------------------- ProGenBase.__init__
\* a mutant of UseGmlp: strict comparison
UseGmlpStrict(depth, i, global_mlp_depth) == (depth - i) < global_mlp_depth

\* use_gmlp = (depth - i) <= global_mlp_depth, i counted from 0
UseGmlp(depth, i, global_mlp_depth) == (depth - i) <= global_mlp_depth

\* a mutant of InnerDim: the projections kept at the model width
InnerDimIsDim(dim, heads, dim_head) == dim

\* inner_dim = dim_head * heads
InnerDim(dim, heads, dim_head) == dim_head * heads

\* LocalAttention.__init__
NewLocalAttention(i, dim, window_size, heads, dim_head) ==
  [name |-> <<"attn", i>>, dim |-> dim, window_size |-> window_size,
   heads |-> heads, inner_dim |-> InnerDim(dim, heads, dim_head)]

\* SGU.__init__
NewSGU(dim, dim_out, seq_len) ==
  [dim |-> dim, dim_out |-> dim_out, seq_len |-> seq_len]

\* FeedForward.__init__
NewFeedForward(i, dim, ff_mult, seq_len, spatial_gate) ==
  LET hidden_dim == dim * ff_mult
  IN  [name |-> <<"ff", i>>, dim |-> dim, hidden_dim |-> hidden_dim,
       spatial_gate |-> spatial_gate,
       sgu |-> IF spatial_gate
                 THEN NewSGU(hidden_dim, hidden_dim \div 2, seq_len)
                 ELSE [dim |-> 0, dim_out |-> 0, seq_len |-> 0]]

\* the loop of ProGenBase.__init__: for i in range(depth)
BuildLayers(kw) ==
  [l \in 1..kw.depth |->
     LET i == l - 1
         use_gmlp == UseGmlp(kw.depth, i, kw.global_mlp_depth)
     IN  [attn |-> NewLocalAttention(i, kw.dim, kw.window_size, kw.heads, kw.dim_head),
          ff |-> NewFeedForward(i, kw.dim, kw.ff_mult, kw.seq_len, use_gmlp)]]

\* ----------------------------------------------------- the forward blocks
Raise(kind, where, projected) ==
  [failure |-> kind, failedIn |-> where, qkv |-> projected,
   out |-> [rows |-> 0, cols |-> 0, dep |-> <<>>]]

Return(act, projected) ==
  [failure |-> "none", failedIn |-> "", qkv |-> projected, out |-> act]

\* self.embed(x): row p is the embedding of token p
Embed(n, dim) == [rows |-> n, cols |-> dim, dep |-> [p \in 1..n |-> {p}]]

\* fixed_pos_embedding(seq, dim): np.arange(0, dim, 2) has ceil(dim / 2) entries
FixedPosEmbedding(n, dim) == [rows |-> n, cols |-> (dim + 1) \div 2]

\* a mutant of DivisibleByWindow: the assertion removed
DivisibleAlways(n, wsz) == TRUE

\* the condition of: assert (n % wsz) == 0
DivisibleByWindow(n, wsz) == (n % wsz) = 0

\* The rows each output row of the attention is computed from.  Row (w, i)
\* reads its own query and the keys and values of the slots j of its
\* extended block that the mask keeps; a slot the mask drops gets the score
\* ATTN_MASK_VALUE, whose softmax weight is 0.  A padded slot holds the
\* constant 0 and is computed from no row.
AttnDeps(dep, window, wsz) ==
  LET nw == Len(dep) \div window
      qd == Windows(dep, window)
      kd == ConcatPairs(PadFront(Windows(dep, window), {}))
      m == AttnMask(wsz)
  IN  [p \in 1..Len(dep) |->
         LET w == ((p - 1) \div nw) + 1
             i == ((p - 1) % nw) + 1
         IN  qd[w][i] \cup UNION {kd[w][j] : j \in {jj \in 1..(2 * nw) : m[i][jj] = 1}}]

\* LocalAttention.__call__ on an activation of shape (rows, cols)
LocalAttentionCall(a, xin, pos) ==
  LET n == xin.rows
      wsz == a.window_size
      h == a.heads
      window == n \div wsz
      d == a.inner_dim \div h
      n2 == BroadcastDim(n, pos.rows)
      nw == IF window = 0 THEN 0 ELSE n2 \div window
      dep2 == [p \in 1..n2 |-> At(xin.dep, p)]
  IN  IF ~DivisibleByWindow(n, wsz)
        THEN Raise("AssertionError", "attn.assert", 0)
      ELSE IF a.inner_dim % h # 0
        THEN Raise("ShapeError", "attn.rearrange_heads", 1)
      ELSE IF ~(d % 2 = 0 /\ BroadcastOK(n, pos.rows) /\ BroadcastOK(d, 2 * pos.cols)
                /\ BroadcastDim(d, 2 * pos.cols) = d)
        THEN Raise("ShapeError", "attn.rotary", 1)
      ELSE IF window = 0 \/ n2 % window # 0
        THEN Raise("ShapeError", "attn.rearrange_windows", 1)
      ELSE IF ~(BroadcastOK(nw, wsz) /\ BroadcastOK(2 * nw, 2 * wsz) /\ nw = wsz)
        THEN Raise("ShapeError", "attn.where", 1)
      ELSE Return([rows |-> n2, cols |-> a.dim, dep |-> AttnDeps(dep2, window, wsz)], 1)

\* The rows each row of np.einsum('n d, m n -> m d', gate, weights * mask) is
\* computed from.  jax.numpy.einsum contracts an axis of size 1 against an
\* axis of another size by broadcasting it, so with r gate rows and an (S, S)
\* matrix: r = S pairs gate row n with column n; r = 1 pairs the one gate row
\* with every column; S = 1 pairs the one column with every gate row.
EinsumDeps(gdep, S) ==
  LET r == Len(gdep)
      m == SGUMask(S)
  IN  [mm \in 1..S |->
         UNION {gdep[kg] : kg \in {g \in 1..r :
                  \E kw \in 1..S : m[mm][kw] = 1 /\ (r = S => g = kw)}}]

\* SGU.__call__ on an activation of shape (rows, cols)
SGUCall(s, xin) ==
  LET r == xin.rows
      S == s.seq_len
      gdep == EinsumDeps(xin.dep, S)
      rows2 == BroadcastDim(r, S)
  IN  IF xin.cols % 2 # 0
        THEN Raise("ShapeError", "sgu.split", 0)
      ELSE IF ~BroadcastOK(r, S)
        THEN Raise("ShapeError", "sgu.einsum", 0)
      ELSE Return([rows |-> rows2, cols |-> s.dim_out,
                   dep |-> [p \in 1..rows2 |-> At(xin.dep, p) \cup At(gdep, p)]], 0)

\* FeedForward.__call__
FeedForwardCall(f, xin) ==
  LET hidden == [rows |-> xin.rows, cols |-> f.hidden_dim, dep |-> xin.dep]
      gated == IF f.spatial_gate THEN SGUCall(f.sgu, hidden) ELSE Return(hidden, 0)
  IN  IF gated.failure # "none" THEN gated
      ELSE Return([rows |-> gated.out.rows, cols |-> f.dim, dep |-> gated.out.dep], 0)

\* x += block(x): the sum of two arrays, broadcast
Residual(a, b) ==
  LET rows2 == BroadcastDim(a.rows, b.rows)
  IN  [rows |-> rows2, cols |-> BroadcastDim(a.cols, b.cols),
       dep |-> [p \in 1..rows2 |-> At(a.dep, p) \cup At(b.dep, p)]]

ResidualOK(a, b) == BroadcastOK(a.rows, b.rows) /\ BroadcastOK(a.cols, b.cols)


\* ------------------------------------------ Spec: construction and a call
Idle == <<>>

AttnIdle ==
  /\ apc = "idle" /\ ah = 0 /\ awsz = 0
  /\ q = Idle /\ k = Idle /\ v = Idle /\ kin = Idle /\ vin = Idle
  /\ sim = Idle /\ mask = Idle

SGUIdle ==
  /\ spc = "idle" /\ sseq = 0 /\ params = Idle /\ sinput = Idle
  /\ sx = Idle /\ gate = Idle /\ weights = Idle /\ biases = Idle /\ sout = Idle

ProgIdle ==
  /\ kwargs = Idle /\ layers = Idle /\ pc = "idle" /\ seq = 0 /\ li = 0
  /\ x = Idle /\ pos_emb = Idle /\ failure = "none" /\ failedIn = "" /\ qkvCount = 0

\* the keyword arguments ProGen(**kwargs) is given
KwargsSet ==
  [num_tokens : {NumTokens}, dim : DimSet, seq_len : 1..MaxSeqLen,
   depth : 0..MaxDepth, window_size : 1..MaxWindowSize,
   global_mlp_depth : 0..MaxGlobalMlpDepth, heads : HeadsSet,
   dim_head : DimHeadSet, ff_mult : {FF_MULT}]

Init ==
  /\ kwargs \in KwargsSet
  /\ layers = <<>>
  /\ pc = "new"
  /\ seq = 0
  /\ li = 0
  /\ x = [rows |-> 0, cols |-> 0, dep |-> <<>>]
  /\ pos_emb = [rows |-> 0, cols |-> 0]
  /\ failure = "none"
  /\ failedIn = ""
  /\ qkvCount = 0
  /\ AttnIdle
  /\ SGUIdle

\* ProGenBase.__init__
Construct ==
  /\ pc = "new"
  /\ layers' = BuildLayers(kwargs)
  /\ pc' = "constructed"
  /\ UNCHANGED <<kwargs, seq, li, x, pos_emb, failure, failedIn, qkvCount>>
  /\ UNCHANGED <<attnVars, sguVars>>

\* ProGenBase.__call__ up to the loop over the layers, on n tokens
Call ==
  /\ pc = "constructed"
  /\ \E n \in 1..MaxSeqLen :
       /\ seq' = n
       /\ x' = Embed(n, kwargs.dim)
       /\ pos_emb' = FixedPosEmbedding(n, kwargs.dim_head)
  /\ li' = 1
  /\ pc' = IF Len(layers) = 0 THEN "to_logits" ELSE "attn"
  /\ UNCHANGED <<kwargs, layers, failure, failedIn, qkvCount>>
  /\ UNCHANGED <<attnVars, sguVars>>

\* x += attn(x, pos_emb = rotary_emb)
AttnStep ==
  /\ pc = "attn"
  /\ LET r == LocalAttentionCall(layers[li].attn, x, pos_emb)
         ok == r.failure = "none" /\ ResidualOK(x, r.out)
     IN  /\ qkvCount' = qkvCount + r.qkv
         /\ failure' = IF r.failure # "none" THEN r.failure
                       ELSE IF ok THEN "none" ELSE "ShapeError"
         /\ failedIn' = IF r.failure # "none" THEN r.failedIn
                        ELSE IF ok THEN "" ELSE "attn.residual"
         /\ x' = IF ok THEN Residual(x, r.out) ELSE x
         /\ pc' = IF ok THEN "ff" ELSE "raised"
  /\ UNCHANGED <<kwargs, layers, seq, li, pos_emb>>
  /\ UNCHANGED <<attnVars, sguVars>>

\* x += ff(x)
FFStep ==
  /\ pc = "ff"
  /\ LET r == FeedForwardCall(layers[li].ff, x)
         ok == r.failure = "none" /\ ResidualOK(x, r.out)
     IN  /\ failure' = IF r.failure # "none" THEN r.failure
                       ELSE IF ok THEN "none" ELSE "ShapeError"
         /\ failedIn' = IF r.failure # "none" THEN r.failedIn
                        ELSE IF ok THEN "" ELSE "ff.residual"
         /\ x' = IF ok THEN Residual(x, r.out) ELSE x
         /\ pc' = IF ~ok THEN "raised"
                  ELSE IF li = Len(layers) THEN "to_logits" ELSE "attn"
         /\ li' = IF ok /\ li < Len(layers) THEN li + 1 ELSE li
  /\ UNCHANGED <<kwargs, layers, seq, pos_emb, qkvCount>>
  /\ UNCHANGED <<attnVars, sguVars>>

\* return self.to_logits(x)
ToLogits ==
  /\ pc = "to_logits"
  /\ x' = [rows |-> x.rows, cols |-> kwargs.num_tokens, dep |-> x.dep]
  /\ pc' = "returned"
  /\ UNCHANGED <<kwargs, layers, seq, li, pos_emb, failure, failedIn, qkvCount>>
  /\ UNCHANGED <<attnVars, sguVars>>

Next == Construct \/ Call \/ AttnStep \/ FFStep \/ ToLogits

Spec == Init /\ [][Next]_vars

\* ----------------------------------------------------- claims under Spec
Terminal == pc \in {"returned", "raised"}

Constructed == pc \notin {"new", "idle"}

\* the layers whose feed-forward block was built with an SGU
GatedLayers == {l \in 1..Len(layers) : layers[l].ff.spatial_gate}

FirstGated == CHOOSE l \in GatedLayers : \A l2 \in GatedLayers : l <= l2

\* C6: once ProGenBase is constructed, layer i (counted from 0) has spatial
\* gating iff i >= depth - global_mlp_depth, every other layer has no SGU, and
\* exactly min(depth, global_mlp_depth) layers are gated.
C6_GatedLastLayers ==
  Constructed =>
    /\ Len(layers) = kwargs.depth
    /\ \A i \in 0..(kwargs.depth - 1) :
         /\ layers[i + 1].ff.spatial_gate <=> (i >= kwargs.depth - kwargs.global_mlp_depth)
         /\ layers[i + 1].ff.spatial_gate <=> (layers[i + 1].ff.sgu.seq_len = kwargs.seq_len)
    /\ Cardinality(GatedLayers) = Min(kwargs.depth, kwargs.global_mlp_depth)

C6_Witness ==
  /\ pc = "constructed"
  /\ kwargs.depth = 3 /\ kwargs.global_mlp_depth = 2
  /\ ~layers[1].ff.spatial_gate
  /\ layers[2].ff.spatial_gate /\ layers[3].ff.spatial_gate

\* C5 as stated: every forward call whose length is not divisible by
\* window_size ends in the assertion error of a LocalAttention block.
C5_Original ==
  (Terminal /\ seq % kwargs.window_size # 0) =>
    (pc = "raised" /\ failure = "AssertionError")

\* C5, amended: with depth >= 1, a call whose length is not divisible by
\* window_size never gets past the first LocalAttention block, and ends there
\* with its assertion error, before any to_qkv projection, without logits;
\* and a call whose length is divisible never raises the assertion.
C5_AssertFailsFast ==
  /\ (seq > 0 /\ kwargs.depth >= 1 /\ seq % kwargs.window_size # 0) =>
       /\ pc \in {"attn", "raised"}
       /\ li = 1
       /\ qkvCount = 0
       /\ pc = "raised" =>
            (failure = "AssertionError" /\ failedIn = "attn.assert")
  /\ (seq > 0 /\ seq % kwargs.window_size = 0) => failure # "AssertionError"

C5_Witness ==
  /\ pc = "raised" /\ failure = "AssertionError"
  /\ kwargs.depth >= 2
  /\ seq % kwargs.window_size # 0
  /\ seq > kwargs.window_size

\* C7 as stated: the mixing matrix has the construction-time shape, and a
\* call whose length differs from seq_len, with at least one gated layer,
\* raises a shape error in the first gated feed-forward block.  (Calls that
\* end in an attention block before it, with a length not divisible by
\* window_size or an odd dim_head, are left out.)
C7_MismatchFailsFast ==
  /\ Constructed =>
       \A l \in GatedLayers : layers[l].ff.sgu.seq_len = kwargs.seq_len
  /\ (Terminal /\ seq # kwargs.seq_len /\ GatedLayers # {}
        /\ seq % kwargs.window_size = 0 /\ kwargs.dim_head % 2 = 0) =>
       /\ pc = "raised"
       /\ failure = "ShapeError" /\ failedIn = "sgu.einsum"
       /\ li = FirstGated

C9_Causal ==
  (pc \in {"attn", "ff", "to_logits", "returned"} /\ seq = kwargs.seq_len) =>
    /\ x.rows = seq
    /\ \A p \in 1..x.rows : x.dep[p] \subseteq 1..p

C9_Witness ==
  /\ pc = "returned"
  /\ seq = kwargs.seq_len /\ seq = 4 /\ kwargs.window_size = 2
  /\ kwargs.depth = 3 /\ kwargs.global_mlp_depth = 1
  /\ x.dep[4] = 1..4 /\ x.dep[3] = 1..3 /\ x.dep[1] = {1}

\* ------------------------------ SpecAttn: LocalAttention.__call__, 72 - 80
\* The tensors after apply_rotary_pos_emb, with dim_head = 1: q, k, v are
\* (heads, n) integers and self.scale = 1 ** -0.5 = 1.  The keys are distinct
\* non-zero labels, so that where a key ends up says where it came from.
QVals == {-1, 2}

KeyLabel(h, p, n, sign) == sign * ((h - 1) * n + p)

InitAttn ==
  /\ ProgIdle
  /\ SGUIdle
  /\ apc = "rotated"
  /\ ah \in 1..MaxHeads
  /\ awsz \in 1..MaxWindowSize
  /\ \E window \in 1..MaxWindows :
       LET n == window * awsz
       IN  /\ \E qrow \in [1..n -> QVals] : q = [h \in 1..ah |-> [p \in 1..n |-> h * qrow[p]]]
           /\ \E sign \in {-1, 1} :
                /\ kin = [h \in 1..ah |-> [p \in 1..n |-> KeyLabel(h, p, n, sign)]]
                /\ vin = [h \in 1..ah |-> [p \in 1..n |-> 0 - KeyLabel(h, p, n, sign)]]
  /\ k = kin
  /\ v = vin
  /\ sim = Idle
  /\ mask = Idle

\* window = n // wsz
WindowCount == Len(kin[1]) \div awsz

\* q, k, v = map(lambda t: rearrange(t, 'h (w n) d -> h w n d', w = window), (q, k, v))
WindowStep ==
  /\ apc = "rotated"
  /\ q' = [h \in 1..ah |-> Windows(q[h], WindowCount)]
  /\ k' = [h \in 1..ah |-> Windows(k[h], WindowCount)]
  /\ v' = [h \in 1..ah |-> Windows(v[h], WindowCount)]
  /\ apc' = "windowed"
  /\ UNCHANGED <<ah, awsz, kin, vin, sim, mask>>
  /\ UNCHANGED <<progVars, sguVars>>

\* k, v = map(lambda t: np.pad(t, ((0, 0), (1, 0), (0, 0), (0, 0)), constant_values = 0.), (k, v))
PadStep ==
  /\ apc = "windowed"
  /\ k' = [h \in 1..ah |-> PadFront(k[h], 0)]
  /\ v' = [h \in 1..ah |-> PadFront(v[h], 0)]
  /\ apc' = "padded"
  /\ UNCHANGED <<ah, awsz, q, kin, vin, sim, mask>>
  /\ UNCHANGED <<progVars, sguVars>>

\* k, v = map(lambda t: np.concatenate((t[:, :-1], t[:, 1:]), axis = 2), (k, v))
ConcatStep ==
  /\ apc = "padded"
  /\ k' = [h \in 1..ah |-> ConcatPairs(k[h])]
  /\ v' = [h \in 1..ah |-> ConcatPairs(v[h])]
  /\ apc' = "extended"
  /\ UNCHANGED <<ah, awsz, q, kin, vin, sim, mask>>
  /\ UNCHANGED <<progVars, sguVars>>

\* np.einsum('h w i d, h w j d -> h w i j', q, k) * self.scale
Similarity(qt, kt) ==
  [h \in 1..Len(qt) |->
     [w \in 1..Len(qt[h]) |->
        [i \in 1..Len(qt[h][w]) |->
           [j \in 1..Len(kt[h][w]) |-> Float(qt[h][w][i] * kt[h][w][j])]]]]

\* sim = np.einsum(...) * self.scale
SimStep ==
  /\ apc = "extended"
  /\ sim' = Similarity(q, k)
  /\ apc' = "scored"
  /\ UNCHANGED <<ah, awsz, q, k, v, kin, vin, mask>>
  /\ UNCHANGED <<progVars, sguVars>>

\* np.where(mask, sim, value), the (i, j) mask broadcast over heads and windows
Where(m, t, value) ==
  [h \in 1..Len(t) |->
     [w \in 1..Len(t[h]) |->
        [i \in 1..Len(t[h][w]) |->
           [j \in 1..Len(t[h][w][i]) |->
              IF m[i][j] # 0 THEN t[h][w][i][j] ELSE value]]]]

\* mask = np.tril(...); sim = np.where(mask, sim, ATTN_MASK_VALUE)
MaskStep ==
  /\ apc = "scored"
  /\ mask' = AttnMask(awsz)
  /\ sim' = Where(mask', sim, ATTN_MASK_VALUE)
  /\ apc' = "masked"
  /\ UNCHANGED <<ah, awsz, q, k, v, kin, vin>>
  /\ UNCHANGED <<progVars, sguVars>>

NextAttn == WindowStep \/ PadStep \/ ConcatStep \/ SimStep \/ MaskStep

SpecAttn == InitAttn /\ [][NextAttn]_vars

\* C2: after the masking, the score at (i, j) is the similarity of query i and
\* key slot j when j <= i + window_size and ATTN_MASK_VALUE exactly when
\* j > i + window_size, with one (window_size, 2 * window_size) mask for every
\* head and window.
C2_MaskBand ==
  apc = "masked" =>
    /\ Len(mask) = awsz
    /\ \A h \in 1..ah : \A w \in 1..WindowCount :
         \A i \in 1..awsz : \A j \in 1..(2 * awsz) :
           /\ (j <= i + awsz) => sim[h][w][i][j] = Float(q[h][w][i] * k[h][w][j])
           /\ (sim[h][w][i][j] = ATTN_MASK_VALUE) <=> (j > i + awsz)

C2_Witness ==
  /\ apc = "masked"
  /\ ah >= 2 /\ awsz >= 2 /\ WindowCount >= 2
  /\ sim[2][2][1][awsz + 2] = ATTN_MASK_VALUE
  /\ sim[2][2][1][awsz + 1] = Float(q[2][2][1] * kin[2][awsz + 1])
  /\ sim[1][1][1][awsz + 2] = ATTN_MASK_VALUE

\* C3: the extended key/value block of window w has length 2 * window_size:
\* first the content of window w - 1 (zeros for the first window), then the
\* content of window w, and nothing else.
C3_ExtendedBlock ==
  apc \in {"extended", "scored", "masked"} =>
    \A h \in 1..ah :
      /\ Len(k[h]) = WindowCount /\ Len(v[h]) = WindowCount
      /\ \A w \in 1..WindowCount :
           /\ Len(k[h][w]) = 2 * awsz /\ Len(v[h][w]) = 2 * awsz
           /\ \A j \in 1..awsz :
                /\ k[h][w][j] = (IF w = 1 THEN 0 ELSE kin[h][(w - 2) * awsz + j])
                /\ v[h][w][j] = (IF w = 1 THEN 0 ELSE vin[h][(w - 2) * awsz + j])
                /\ k[h][w][awsz + j] = kin[h][(w - 1) * awsz + j]
                /\ v[h][w][awsz + j] = vin[h][(w - 1) * awsz + j]

C3_Witness ==
  /\ apc = "extended"
  /\ awsz = 2 /\ WindowCount = 2 /\ ah = 2
  /\ k[2][1] = <<0, 0, kin[2][1], kin[2][2]>>
  /\ k[2][2] = <<kin[2][1], kin[2][2], kin[2][3], kin[2][4]>>
  /\ kin[2][1] # 0 /\ kin[2][1] # kin[2][3]

\* C4: in the first window every padded key slot j <= window_size is kept by
\* the mask for every query, and its score after masking is the real value 0:
\* the slot holds a zero key and a zero value, and is never set to
\* ATTN_MASK_VALUE.
C4_PaddingUnmasked ==
  apc = "masked" =>
    \A h \in 1..ah : \A i \in 1..awsz : \A j \in 1..awsz :
      /\ mask[i][j] = 1
      /\ k[h][1][j] = 0 /\ v[h][1][j] = 0
      /\ sim[h][1][i][j] = Float(0)
      /\ sim[h][1][i][j] # ATTN_MASK_VALUE

C4_Witness ==
  /\ apc = "masked"
  /\ awsz >= 2 /\ ah >= 2
  /\ q[2][1][1] # 0
  /\ sim[2][1][1][awsz] = Float(0)
  /\ sim[2][1][1][awsz + 1] # Float(0)
  /\ sim[2][1][1][awsz + 2] = ATTN_MASK_VALUE

\* the key slots the mask keeps for query i
Unmasked(i) == {j \in 1..(2 * awsz) : mask[i][j] = 1}

\* C10: query i (counted from 0) keeps exactly i + window_size + 1 of the
\* 2 * window_size key slots, at least window_size + 1, all of them for the
\* last query, its own position among them; no row of scores is all
\* ATTN_MASK_VALUE.
C10_RowNeverFullyMasked ==
  apc = "masked" =>
    /\ \A i \in 1..awsz :
         /\ Cardinality(Unmasked(i)) = (i - 1) + awsz + 1
         /\ Cardinality(Unmasked(i)) >= awsz + 1
         /\ (awsz + i) \in Unmasked(i)
    /\ Unmasked(awsz) = 1..(2 * awsz)
    /\ \A h \in 1..ah : \A w \in 1..WindowCount : \A i \in 1..awsz :
         /\ \E j \in 1..(2 * awsz) : sim[h][w][i][j] # ATTN_MASK_VALUE
         /\ sim[h][w][i][awsz + i] # ATTN_MASK_VALUE

C10_Witness ==
  /\ apc = "masked"
  /\ awsz = 3 /\ WindowCount >= 2
  /\ Cardinality(Unmasked(1)) = 4
  /\ Cardinality(Unmasked(3)) = 6
  /\ sim[1][2][1][5] = ATTN_MASK_VALUE

\* ------------------------------------------- SpecSGU: SGU.__call__, 128 - 147
\* SGU(dim = 4, dim_out = 2, seq_len = sseq) applied to two inputs of shape
\* (n, 4), side by side: every tensor variable is a pair <<run 1, run 2>>.
Sign(i) == IF i > 0 THEN 1 ELSE IF i < 0 THEN -1 ELSE 0

RECURSIVE SumSeq(_)
SumSeq(t) == IF Len(t) = 0 THEN 0 ELSE t[1] + SumSeq(Tail(t))

\* LayerNorm (create_scale, no offset, axis = -1) of a row of width 2 with unit
\* scale: each entry minus the mean, over the standard deviation, which is
\* +1 or -1 when the two entries differ and 0 when they are equal
LayerNorm(row) == <<Sign(row[1] - row[2]), Sign(row[2] - row[1])>>

\* np.split(x, 2, axis = -1) of rows of width 4
SplitFirst(t) == [p \in 1..Len(t) |-> <<t[p][1], t[p][2]>>]

SplitSecond(t) == [p \in 1..Len(t) |-> <<t[p][3], t[p][4]>>]

\* the rows an SGU input is made of
RowVals == {<<1, 2, 0, 1>>, <<2, 1, 1, 0>>, <<1, 1, 2, 2>>}

\* hk.get_parameter: the learned (n, n) weights and (n, 1) biases; sel = 1 is
\* a matrix of ones with the initial biases, sel = 2 a matrix whose entries
\* differ, non-zero above the diagonal
SpatialWeights(sel, n) ==
  [m \in 1..n |-> [kk \in 1..n |-> IF sel = 1 THEN 1 ELSE 2 * kk - m]]

SpatialBiases(sel, n) == [m \in 1..n |-> IF sel = 1 THEN 1 ELSE m - 2]

\* weights * mask
MaskWeights(w, m) ==
  [i \in 1..Len(w) |-> [j \in 1..Len(w[i]) |-> w[i][j] * m[i][j]]]

\* np.einsum('n d, m n -> m d', gate, weights) as jax.numpy.einsum computes
\* it: the n axes pair index by index when their sizes agree, and an n axis of
\* size 1 is broadcast against the other
EinsumOK(g, w) == BroadcastOK(Len(g), Len(w))

Einsum(g, w) ==
  LET r == Len(g)
      S == Len(w)
      N == BroadcastDim(r, S)
  IN  [m \in 1..S |->
         [d \in 1..2 |-> SumSeq([n \in 1..N |-> At(g, n)[d] * At(w[m], n)])]]

\* gate += biases, biases of shape (n, 1)
AddBiases(g, b) ==
  LET rows == BroadcastDim(Len(g), Len(b))
  IN  [m \in 1..rows |-> [d \in 1..2 |-> At(g, m)[d] + At(b, m)]]

\* x * gate
Multiply(a, g) ==
  LET rows == BroadcastDim(Len(a), Len(g))
  IN  [m \in 1..rows |-> [d \in 1..2 |-> At(a, m)[d] * At(g, m)[d]]]

\* self.proj_out = hk.Linear(dim_out), with learned weights ((1, -1), (2, 1))
\* and biases (1, 0)
ProjOut(t) ==
  [m \in 1..Len(t) |-> <<t[m][1] + 2 * t[m][2] + 1, t[m][2] - t[m][1]>>]

InitSGU ==
  /\ ProgIdle
  /\ AttnIdle
  /\ spc = "called"
  /\ sseq \in 1..MaxGateLen
  /\ \E sel \in 1..2 :
       params = [spatial_weights |-> SpatialWeights(sel, sseq),
                 spatial_biases |-> SpatialBiases(sel, sseq)]
  /\ \E n \in 1..MaxGateLen : sinput \in [1..n -> RowVals] \X [1..n -> RowVals]
  /\ sx = Idle /\ gate = Idle /\ weights = Idle /\ biases = Idle /\ sout = Idle

\* x, gate = np.split(x, 2, axis = -1)
SplitStep ==
  /\ spc = "called"
  /\ sx' = <<SplitFirst(sinput[1]), SplitFirst(sinput[2])>>
  /\ gate' = <<SplitSecond(sinput[1]), SplitSecond(sinput[2])>>
  /\ spc' = "split"
  /\ UNCHANGED <<sseq, params, sinput, weights, biases, sout>>
  /\ UNCHANGED <<progVars, attnVars>>

NormRows(t) == [p \in 1..Len(t) |-> LayerNorm(t[p])]

\* gate = self.norm(gate)
NormStep ==
  /\ spc = "split"
  /\ gate' = <<NormRows(gate[1]), NormRows(gate[2])>>
  /\ spc' = "normed"
  /\ UNCHANGED <<sseq, params, sinput, sx, weights, biases, sout>>
  /\ UNCHANGED <<progVars, attnVars>>

\* weights, biases = hk.get_parameter(...); weights = weights * np.tril(np.ones((n, n)))
MaskStepSGU ==
  /\ spc = "normed"
  /\ weights' = MaskWeights(params.spatial_weights, SGUMask(sseq))
  /\ biases' = params.spatial_biases
  /\ spc' = "masked"
  /\ UNCHANGED <<sseq, params, sinput, sx, gate, sout>>
  /\ UNCHANGED <<progVars, attnVars>>

\* gate = np.einsum('n d, m n -> m d', gate, weights); gate += biases
EinsumStep ==
  /\ spc = "masked"
  /\ IF EinsumOK(gate[1], weights)
       THEN /\ gate' = <<AddBiases(Einsum(gate[1], weights), biases),
                         AddBiases(Einsum(gate[2], weights), biases)>>
            /\ spc' = "mixed"
       ELSE /\ gate' = gate
            /\ spc' = "raised"
  /\ UNCHANGED <<sseq, params, sinput, sx, weights, biases, sout>>
  /\ UNCHANGED <<progVars, attnVars>>

\* x = x * gate; return self.proj_out(x)
GateStep ==
  /\ spc = "mixed"
  /\ sout' = <<ProjOut(Multiply(sx[1], gate[1])), ProjOut(Multiply(sx[2], gate[2]))>>
  /\ spc' = "returned"
  /\ UNCHANGED <<sseq, params, sinput, sx, gate, weights, biases>>
  /\ UNCHANGED <<progVars, attnVars>>

NextSGU == SplitStep \/ NormStep \/ MaskStepSGU \/ EinsumStep \/ GateStep

SpecSGU == InitSGU /\ [][NextSGU]_vars

\* the two inputs agree at every position <= m
AgreeUpTo(m) == \A kk \in 1..m : sinput[1][kk] = sinput[2][kk]

\* sum over k <= m of weight[m, k] * gate[k, d] + bias[m], from the learned
\* parameters and the normalised gate half of input run
CausalMix(run, m, d) ==
  SumSeq([kk \in 1..m |->
            params.spatial_weights[m][kk] * LayerNorm(SplitSecond(sinput[run])[kk])[d]])
    + params.spatial_biases[m]

====
